---- MODULE Spec2Model ----
(***************************************************************************)
(* FedDrone dataset preparation (datasets/prepare_VisDrone.py and          *)
(* datasets/datasets_utils.py): the partitioner split_files, the           *)
(* per-file annotation transform of process_split, the distribution table  *)
(* and its merge in main.                                                  *)
(***************************************************************************)
EXTENDS Integers, Sequences, FiniteSets, TLC

\* ------------------------------------------------------------------ bounds
\* Largest number of image files in a listed directory.
MaxFiles == 3
\* Largest client count (--nclients).
MaxClients == 3
\* Largest number of lines of an annotation file (per-line specification).
MaxLines == 2
\* Largest generator position the surrounding code leaves behind.
MaxDraws == 2

VARIABLES
    pc,          \* position of the program
    nclients,    \* args.nclients
    subset,      \* process_split's subset, 'train' or 'val'
    is_train,    \* process_split's is_train
    listing,     \* the source tree: the .jpg names os.listdir gives per subset
    img_files,   \* the caller's list object (process_split's img_files)
    rng,         \* state of the module-global generator of `random`
    split_map,   \* the assignment: bucket name -> list of files
    callArg,     \* history: the elements of the list when split_files was called
    pinned,      \* history: one earlier training-mode call, its input and result
    queue,       \* the (destination, img_file) pairs the two loops still visit
    dist_df,     \* the running pass's distribution table
    train_dist,  \* main's train_dist
    val_dist,    \* main's val_dist
    total_dist,  \* main's total_dist
    images,      \* destination tree: the (bucket, file) pairs under images/
    labels,      \* destination tree: the (bucket, file) pairs under labels/
    destination, \* the bucket of the file in hand
    src,         \* the lines of the annotation file in hand
    lineNo,      \* index of the next line of src
    found,       \* what the iteration met for the file in hand (source tree)
    label_dst,   \* the lines written to the label file in hand
    hist         \* history of the pass: what was read, which files were visited

vars == <<pc, nclients, subset, is_train, listing, img_files, rng, split_map, callArg, pinned,
          queue, dist_df, train_dist, val_dist, total_dist, images, labels,
          destination, src, lineNo, found, label_dst, hist>>

None == "none"

\* ------------------------------------------------------- the random module
\* The module-global Mersenne Twister, as far as split_files reads it: the
\* top 8 bits of each successive 32-bit output after random.seed(s).
\* getrandbits(k), k <= 8, is the top k bits of the next output.
Stream(seed) ==
    IF seed = 42
    THEN <<163, 28, 6, 189, 70, 62, 57, 35, 188, 26, 173, 189, 228, 139, 22, 151,
           108, 8, 7, 23, 55, 59, 129, 154, 6, 143, 50, 183, 166, 179, 139, 107,
           56, 114, 150, 71, 207, 222, 1, 194, 206, 40, 178, 108, 87, 71, 39, 55,
           245, 195, 86, 26, 23, 97, 24, 91, 216, 88, 154, 67, 206, 11, 186, 117>>
    ELSE <<82, 242, 38, 101, 166, 12, 18, 210, 137, 24, 93, 149, 14, 232, 129, 54,
           9, 22, 111, 107, 17, 61, 23, 141, 108, 15, 211, 144, 31, 242, 57, 161,
           160, 149, 242, 15, 147, 149, 101, 12, 249, 56, 11, 142, 219, 34, 74, 107,
           36, 138, 30, 146, 78, 143, 208, 174, 46, 26, 148, 146, 163, 48, 95, 24>>

\* Seeds the surrounding code may have set: split_files's own, and another.
Seeds == {42, 7}

RECURSIVE Pow2(_)
Pow2(k) == IF k = 0 THEN 1 ELSE 2 * Pow2(k - 1)

RECURSIVE BitLength(_)
BitLength(n) == IF n = 0 THEN 0 ELSE 1 + BitLength(n \div 2)

\* random.getrandbits(k): the value and the generator after it.  The modelled
\* stream is 64 outputs long and is read cyclically beyond that.
getrandbits(k, g) ==
    LET s == Stream(g.seed)
        word == s[(g.pos % Len(s)) + 1]
    IN  [val |-> word \div Pow2(8 - k), rng |-> [seed |-> g.seed, pos |-> g.pos + 1]]

\* random._randbelow_with_getrandbits(n): draw k = n.bit_length() bits until
\* the draw is below n.
RECURSIVE randbelow(_, _)
randbelow(n, g) ==
    LET d == getrandbits(BitLength(n), g)
    IN  IF d.val >= n THEN randbelow(n, d.rng) ELSE d

Swap(x, i, j) == [x EXCEPT ![i] = x[j], ![j] = x[i]]

\* random.shuffle(x): for i in reversed(range(1, len(x))): j = randbelow(i+1);
\* x[i], x[j] = x[j], x[i].  Here i is the 1-based index, from Len(x) down to 2.
RECURSIVE shuffleFrom(_, _, _)
shuffleFrom(x, i, g) ==
    IF i < 2 THEN [list |-> x, rng |-> g]
    ELSE LET d == randbelow(i, g)
         IN  shuffleFrom(Swap(x, i, d.val + 1), i - 1, d.rng)

shuffle(x, g) == shuffleFrom(x, Len(x), g)

\* ---------------------------------------------------------------- buckets
client(k) == <<"client", k>>
server == <<"server", 0>>

\* A plausible slip of the seeding: the generator is left as the caller had it.
SeedKept(g) == g

\* random.seed(42)
Seed42(g) == [seed |-> 42, pos |-> 0]

\* A plausible slip of the slice: the stride is one too long.
SliceLongStride(files, i, n) ==
    LET cnt == IF Len(files) <= i THEN 0 ELSE ((Len(files) - i - 1) \div (n + 1)) + 1
    IN  [j \in 1..cnt |-> files[i + 1 + (j - 1) * (n + 1)]]

\* A plausible slip of the slice: contiguous chunks of n files, the last
\* bucket taking the rest.
SliceChunk(files, i, n) ==
    LET lo == i * n + 1
        hi == IF lo + n - 1 < Len(files) THEN lo + n - 1 ELSE Len(files)
    IN  IF lo > Len(files) THEN <<>> ELSE SubSeq(files, lo, hi)

\* files[i::nclients], i the 0-based start.
Slice(files, i, n) ==
    LET cnt == IF Len(files) <= i THEN 0 ELSE ((Len(files) - i - 1) \div n) + 1
    IN  [j \in 1..cnt |-> files[i + 1 + (j - 1) * n]]

\* split_files(files, nclients): the list after the in-place shuffle, the
\* generator after it, and the returned dict.
split_files(files, n, g) ==
    LET sh == shuffle(files, Seed42(g))
    IN  [files |-> sh.list,
         rng   |-> sh.rng,
         map   |-> [b \in {client(i + 1) : i \in 0..(n - 1)} |->
                       Slice(sh.list, b[2] - 1, n)]]

\* split_map = split_files(img_files, nclients) if is_train else {'server': img_files}
Assign(files, n, train, g) ==
    IF train THEN split_files(files, n, g)
    ELSE [files |-> files, rng |-> g, map |-> [b \in {server} |-> files]]

\* The keys of the dict in insertion order: client1..clientN, or server.
Keys(map) ==
    IF server \in DOMAIN map THEN <<server>>
    ELSE [i \in 1..Cardinality(DOMAIN map) |-> client(i)]

\* ------------------------------------------------- the partitioner alone
\* Names of the image files of a subset directory.
File(sub, i) == <<sub, i>>

\* A directory listing: the names of its files, each once, in any order.
Listings(sub, m) ==
    {s \in UNION {[1..k -> {File(sub, i) : i \in 1..m}] : k \in 0..m} :
        \A i, j \in DOMAIN s : i # j => s[i] # s[j]}

RngStates == [seed : Seeds, pos : 0..MaxDraws]

Idle == <<>>

NotPinned == [has |-> FALSE, files |-> <<>>, n |-> 0, out |-> <<>>]

PartInit ==
    /\ pc = "listed"
    /\ nclients \in 1..MaxClients
    /\ subset \in {"train", "val"}
    /\ is_train = (subset = "train")
    /\ \E l \in Listings(subset, MaxFiles) :
           /\ listing = [s \in {"train", "val"} |-> IF s = subset THEN l ELSE <<>>]
           /\ img_files = l
    /\ rng \in RngStates
    /\ split_map = Idle
    /\ callArg = Idle
    /\ pinned = NotPinned
    /\ queue = Idle /\ dist_df = Idle /\ train_dist = Idle /\ val_dist = Idle
    /\ total_dist = Idle /\ images = {} /\ labels = {} /\ destination = None
    /\ src = Idle /\ lineNo = 0 /\ label_dst = Idle /\ hist = Idle
    /\ found = Idle

PartFrame ==
    UNCHANGED <<nclients, subset, is_train, listing, queue, dist_df, train_dist,
                val_dist, total_dist, images, labels, destination, src, lineNo,
                found, label_dst, hist>>

\* process_split lists the directory into a new list object (line 37).
PList ==
    /\ pc = "returned"
    /\ img_files' = listing[subset]
    /\ pc' = "listed"
    /\ split_map' = Idle
    /\ callArg' = Idle
    /\ UNCHANGED <<rng, pinned>>
    /\ PartFrame

\* Line 42: the assignment is built from the list in hand (a list already
\* passed once may be passed again).
PCall ==
    /\ LET r == Assign(img_files, nclients, is_train, rng)
       IN  /\ img_files' = r.files
           /\ rng' = r.rng
           /\ split_map' = r.map
    /\ callArg' = img_files
    /\ pc' = "returned"
    /\ UNCHANGED pinned
    /\ PartFrame

\* Code outside split_files seeds the global generator or draws from it.
PRandom ==
    /\ rng' \in RngStates
    /\ UNCHANGED <<pc, img_files, split_map, callArg, pinned>>
    /\ PartFrame

\* History only: remember one training-mode call, to compare later calls with.
PPin ==
    /\ pc = "returned"
    /\ is_train
    /\ ~pinned.has
    /\ pinned' = [has |-> TRUE, files |-> callArg, n |-> nclients, out |-> split_map]
    /\ UNCHANGED <<pc, img_files, rng, split_map, callArg>>
    /\ PartFrame

PartNext == PList \/ PCall \/ PRandom \/ PPin

SpecPart == PartInit /\ [][PartNext]_vars

\* The files of a list, and the concatenation of all bucket lists.
Range(s) == {s[i] : i \in DOMAIN s}

RECURSIVE Concat(_, _, _)
Concat(map, keys, i) ==
    IF i > Len(keys) THEN <<>> ELSE map[keys[i]] \o Concat(map, keys, i + 1)

NoDup(s) == \A i, j \in DOMAIN s : i # j => s[i] # s[j]

\* C1: in training and in validation mode, every input file is in exactly one
\* bucket: the bucket lists together hold no file twice and no file outside the
\* input, and their union is the set of input files.
PartitionComplete ==
    pc = "returned" =>
        LET all == Concat(split_map, Keys(split_map), 1)
        IN  /\ NoDup(all)
            /\ Len(all) = Len(callArg)
            /\ Range(all) = Range(callArg)
            /\ \A b1, b2 \in DOMAIN split_map :
                   b1 # b2 => Range(split_map[b1]) \cap Range(split_map[b2]) = {}

PartitionCompleteWitness ==
    /\ pc = "returned" /\ is_train /\ Len(callArg) = 3 /\ nclients = 2
    /\ Len(split_map[client(1)]) = 2 /\ Len(split_map[client(2)]) = 1

\* C2: split_files returns exactly client1..clientN, the file at index i of the
\* shuffled list is in client((i mod N)+1), and every bucket holds floor(M/N)
\* or ceil(M/N) files.
BalanceBound ==
    (pc = "returned" /\ is_train) =>
        LET m == Len(callArg)
            lo == m \div nclients
            hi == (m + nclients - 1) \div nclients
        IN  /\ DOMAIN split_map = {client(k) : k \in 1..nclients}
            /\ \A i \in 0..(m - 1) :
                   img_files[i + 1] \in Range(split_map[client((i % nclients) + 1)])
            /\ \A b \in DOMAIN split_map : Len(split_map[b]) \in {lo, hi}

BalanceBoundWitness ==
    /\ pc = "returned" /\ is_train /\ Len(callArg) = 1 /\ nclients = 2
    /\ split_map[client(2)] = <<>>

\* C3: after split_files returns, the caller's list holds the same elements in
\* the same order as before the call.
CallerListUntouched ==
    (pc = "returned" /\ is_train) => img_files = callArg

\* C4: a training-mode call given the same list and the same client count as
\* an earlier one returns the same assignment, whatever the generator's state.
Deterministic ==
    (pc = "returned" /\ is_train /\ pinned.has
        /\ pinned.files = callArg /\ pinned.n = nclients)
    => split_map = pinned.out

DeterministicWitness ==
    /\ pc = "returned" /\ is_train /\ pinned.has
    /\ pinned.files = callArg /\ pinned.n = nclients
    /\ Len(callArg) = 3
    /\ img_files # callArg
    /\ rng.seed = 42

\* ------------------------------------------------------ annotation lines
\* A field of a line after line.strip().split(','): text that reads as an
\* integer v ("int"), as the decimal v + 0.5 ("dec"), or as no number ("bad").
IntF(v) == [k |-> "int", v |-> v]
DecF(v) == [k |-> "dec", v |-> v]
BadF == [k |-> "bad", v |-> 0]

\* Exact fractions <<numerator, denominator>>, denominator > 0, for the floats.
RECURSIVE GCD(_, _)
GCD(a, b) == IF b = 0 THEN a ELSE GCD(b, a % b)

Abs(a) == IF a < 0 THEN -a ELSE a

RNorm(q) ==
    LET g == GCD(Abs(q[1]), q[2])
    IN  IF g = 0 THEN q ELSE <<q[1] \div g, q[2] \div g>>

RAdd(p, q) == RNorm(<<p[1] * q[2] + q[1] * p[2], p[2] * q[2]>>)
RSub(p, q) == RNorm(<<p[1] * q[2] - q[1] * p[2], p[2] * q[2]>>)
RDivInt(p, n) == RNorm(<<p[1], p[2] * n>>)

\* float(s) and int(s): whether the conversion raises ValueError, and its value.
CanFloat(f) == f.k \in {"int", "dec"}
CanInt(f) == f.k = "int"
float(f) == IF f.k = "int" THEN <<f.v, 1>> ELSE <<2 * f.v + 1, 2>>
int(f) == f.v

\* The double nearest a positive fraction p/q (in lowest terms) lies below it
\* (-1), on it (0) or above it (1): with 2^52 <= p*2^k/q < 2^53, the remainder
\* of p*2^k by q decides which way the 53-bit significand was rounded.
RECURSIVE Pow2Mod(_, _)
Pow2Mod(k, q) == IF k = 0 THEN 1 % q ELSE (2 * Pow2Mod(k - 1, q)) % q

RECURSIVE ShiftUp(_, _, _)
ShiftUp(p, q, j) == IF p * Pow2(j) >= q THEN j ELSE ShiftUp(p, q, j + 1)

RECURSIVE ShiftDown(_, _, _)
ShiftDown(p, q, j) == IF q * Pow2(j + 1) > p THEN j ELSE ShiftDown(p, q, j + 1)

DoubleSide(p, q) ==
    LET e == IF p < q THEN -ShiftUp(p, q, 0) ELSE ShiftDown(p, q, 0)
        r == ((p % q) * Pow2Mod(52 - e, q)) % q
    IN  IF r = 0 THEN 0 ELSE IF 2 * r < q THEN -1 ELSE 1

\* f"{v:.6f}" of the double nearest a fraction q >= 0, as a count of
\* millionths: the double's exact value is rounded to 6 decimals, half to
\* even.  The scaling by 10^6 is reduced first to stay within 32 bits.
Million == 1000000

Fmt6(q) ==
    LET g == GCD(Million, q[2])
        n == q[1] * (Million \div g)
        d == q[2] \div g
        fl == n \div d
        r == n - fl * d
        side == DoubleSide(q[1], q[2])
    IN  IF 2 * r < d THEN fl
        ELSE IF 2 * r > d THEN fl + 1
        ELSE IF side > 0 THEN fl + 1
        ELSE IF side < 0 THEN fl
        ELSE IF fl % 2 = 0 THEN fl ELSE fl + 1

\* The resolution process_split passes to convert_bbox.
img_width == 1920
img_height == 1080

\* Class ids kept by the filter: 1 <= cls_id <= 10.
MinClass == 1
MaxClass == 10

\* A plausible slip of the conversion: the left and top edges are taken for
\* the centre.
ConvertCorner(bbox_left, bbox_top, bbox_right, bbox_bottom, iw, ih) ==
    [x |-> RDivInt(bbox_left, iw),
     y |-> RDivInt(bbox_top, ih),
     w |-> RDivInt(RSub(bbox_right, bbox_left), iw),
     h |-> RDivInt(RSub(bbox_bottom, bbox_top), ih)]

\* datasets_utils.convert_bbox
convert_bbox(bbox_left, bbox_top, bbox_right, bbox_bottom, iw, ih) ==
    [x |-> RDivInt(RDivInt(RAdd(bbox_left, bbox_right), 2), iw),
     y |-> RDivInt(RDivInt(RAdd(bbox_top, bbox_bottom), 2), ih),
     w |-> RDivInt(RSub(bbox_right, bbox_left), iw),
     h |-> RDivInt(RSub(bbox_bottom, bbox_top), ih)]

\* ------------------------------------------------- the distribution table
\* data_dict['names'] of the YAML file main is given (the VisDrone classes).
names == <<"pedestrian", "people", "bicycle", "car", "van", "truck", "tricycle",
           "awning-tricycle", "bus", "motor">>

\* The index of the frame: ['Samples'] + data_dict['names'].
index == <<"Samples">> \o names

\* The columns of the frame: ['server', 'client1', ..., 'clientN'].
columns(n) == {server} \cup {client(k) : k \in 1..n}

\* get_distribution_dataframe: every cell 0.
get_distribution_dataframe(n) ==
    [r \in Range(index) |-> [c \in columns(n) |-> 0]]

\* dist_df.loc[row, col] += 1
Increment(df, row, col) == [df EXCEPT ![row][col] = @ + 1]

\* A plausible slip of the filter: the status flag is not looked at.
DroppedByClass(cls_id, status) == ~(MinClass <= cls_id /\ cls_id <= MaxClass)

\* Line 86: if status == 0 or not (1 <= cls_id <= 10): continue
Dropped(cls_id, status) == status = 0 \/ ~(MinClass <= cls_id /\ cls_id <= MaxClass)

\* A plausible slip of the row lookup: the class id taken as 0-based.
ClassRowZeroBased(cls_id) == index[cls_id]

\* Line 103: class_name = dist_df.index[cls_id] (positions count from 0).
ClassRow(cls_id) == index[cls_id + 1]

\* Lines 70-105, one iteration of the loop over the lines of a file: st holds
\* the label file written so far and the table; dest is the file's bucket.
ProcessLine(parts, st, dest) ==
    IF Len(parts) < 8 THEN st
    ELSE IF ~(/\ CanFloat(parts[1]) /\ CanFloat(parts[2])
              /\ CanFloat(parts[3]) /\ CanFloat(parts[4])
              /\ CanInt(parts[6]) /\ CanInt(parts[7])) THEN st
    ELSE LET x_min == float(parts[1])
             y_min == float(parts[2])
             w == float(parts[3])
             h == float(parts[4])
             cls_id == int(parts[6])
             status == int(parts[7])
             box == convert_bbox(x_min, y_min, RAdd(x_min, w), RAdd(y_min, h),
                                 img_width, img_height)
             out == [cls |-> cls_id - 1, x |-> Fmt6(box.x), y |-> Fmt6(box.y),
                     w |-> Fmt6(box.w), h |-> Fmt6(box.h)]
         IN  IF Dropped(cls_id, status) THEN st
             ELSE [label |-> Append(st.label, out),
                   df |-> Increment(Increment(st.df, ClassRow(cls_id), dest),
                                    "Samples", dest)]

\* The lines the model reads: kept ones (an integer box, a box with a decimal
\* edge, a 9-field line, a line whose unread score is no number), filtered ones
\* and malformed ones.
Box(l, t, w, h, score, cls, status) ==
    <<IntF(l), IntF(t), IntF(w), IntF(h), score, cls, status, IntF(0)>>

LineCar == Box(100, 200, 300, 150, IntF(1), IntF(4), IntF(1))
LineMotor == Box(0, 0, 75, 540, BadF, IntF(10), IntF(2)) \o <<BadF>>
LinePed ==
    <<DecF(10), IntF(20), IntF(3), DecF(7), IntF(1), IntF(1), IntF(1), IntF(0)>>
LineStatus0 == Box(100, 200, 300, 150, IntF(1), IntF(4), IntF(0))
LineClass0 == Box(5, 5, 10, 10, IntF(1), IntF(0), IntF(1))
LineClass11 == Box(5, 5, 10, 10, IntF(1), IntF(11), IntF(2))
LineShort == SubSeq(LineCar, 1, 7)
LineBadBox == <<IntF(1), IntF(2), BadF, IntF(4), IntF(1), IntF(4), IntF(1), IntF(0)>>
LineDecClass == Box(1, 2, 3, 4, IntF(1), DecF(4), IntF(1))

KeptLines == {LineCar, LineMotor, LinePed}
Lines == KeptLines \cup {LineStatus0, LineClass0, LineClass11, LineShort,
                         LineBadBox, LineDecClass}

SeqsUpTo(S, m) == UNION {[1..k -> S] : k \in 0..m}

\* ------------------------------------------------ one annotation file
\* The with-block of lines 68-105 on one file: the file is open, the loop
\* takes its lines one by one, and the block closes both files.
FileInit ==
    /\ pc = "lines"
    /\ nclients \in 1..MaxClients
    /\ destination \in columns(nclients)
    /\ is_train = (destination # server)
    /\ subset = (IF is_train THEN "train" ELSE "val")
    /\ src \in SeqsUpTo(Lines, MaxLines)
    /\ lineNo = 1
    /\ label_dst = <<>>
    /\ dist_df = get_distribution_dataframe(nclients)
    /\ listing = Idle /\ img_files = Idle /\ rng = [seed |-> 42, pos |-> 0]
    /\ split_map = Idle /\ callArg = Idle /\ pinned = NotPinned
    /\ queue = Idle /\ train_dist = Idle /\ val_dist = Idle /\ total_dist = Idle
    /\ images = {} /\ labels = {} /\ hist = Idle /\ found = Idle

FileFrame ==
    UNCHANGED <<nclients, subset, is_train, listing, img_files, rng, split_map,
                callArg, pinned, queue, train_dist, val_dist, total_dist, images,
                labels, destination, src, found, hist>>

\* for line in src: ... (one iteration)
FLine ==
    /\ pc = "lines"
    /\ lineNo <= Len(src)
    /\ LET st == ProcessLine(src[lineNo], [label |-> label_dst, df |-> dist_df],
                             destination)
       IN  /\ label_dst' = st.label
           /\ dist_df' = st.df
    /\ lineNo' = lineNo + 1
    /\ pc' = "lines"
    /\ FileFrame

\* The loop is exhausted and the with-block closes the two files.
FClose ==
    /\ pc = "lines"
    /\ lineNo > Len(src)
    /\ pc' = "closed"
    /\ UNCHANGED <<lineNo, label_dst, dist_df>>
    /\ FileFrame

FileNext == FLine \/ FClose

SpecFile == FileInit /\ [][FileNext]_vars

\* The specified reading of a line: it survives if it has at least 8 fields, the
\* four box fields are numbers, the class id and the status flag are integers,
\* the status flag is not 0 and the class id is in 1..10.
Survives(parts) ==
    /\ Len(parts) >= 8
    /\ \A i \in 1..4 : parts[i].k \in {"int", "dec"}
    /\ parts[6].k = "int" /\ parts[7].k = "int"
    /\ parts[7].v # 0
    /\ parts[6].v \in 1..10

\* C5: a line that does not survive (malformed, status 0, class id outside
\* 1..10) leaves the label file and the table as they were and raises nothing,
\* and the loop goes on with the next line; only a surviving line changes them.
LineSurvival ==
    [][(pc = "lines" /\ lineNo <= Len(src) /\ ~Survives(src[lineNo]))
          => /\ label_dst' = label_dst
             /\ dist_df' = dist_df
             /\ pc' = "lines"
             /\ lineNo' = lineNo + 1]_vars

LineSurvivalWitness ==
    /\ pc = "closed" /\ Len(src) = 2
    /\ src[1] = LineStatus0 /\ src[2] = LineCar
    /\ Len(label_dst) = 1
    /\ dist_df["car"][destination] = 1

\* The value a 6-decimal text m (in millionths) may stand for: m is a nearest
\* multiple of 10^-6 to the fraction q.
Nearest6(q, m) ==
    LET g == GCD(Million, q[2])
        n == q[1] * (Million \div g)
        d == q[2] \div g
    IN  2 * Abs(n - m * d) <= d

\* The specified output line for a surviving record.
IsOutputOf(out, parts) ==
    LET left == float(parts[1])
        top == float(parts[2])
        width == float(parts[3])
        height == float(parts[4])
    IN  /\ out.cls = parts[6].v - 1
        /\ Nearest6(RDivInt(RAdd(RAdd(left, left), width), 2 * 1920), out.x)
        /\ Nearest6(RDivInt(RAdd(RAdd(top, top), height), 2 * 1080), out.y)
        /\ Nearest6(RDivInt(width, 1920), out.w)
        /\ Nearest6(RDivInt(height, 1080), out.h)

\* The positions of the surviving lines of a file, in source order.
RECURSIVE SurvivorsFrom(_, _)
SurvivorsFrom(lines, i) ==
    IF i > Len(lines) THEN <<>>
    ELSE (IF Survives(lines[i]) THEN <<i>> ELSE <<>>) \o SurvivorsFrom(lines, i + 1)

\* C6: the label file of a file holds one line per surviving source line, in
\* source order; the line of record (left, top, width, height, class k) carries
\* class k-1 and x = (2*left+width)/(2*1920), y = (2*top+height)/(2*1080),
\* w = width/1920, h = height/1080 at 6 decimals, and (100, 200, 300, 150)
\* gives 0.130208 0.254630 0.156250 0.138889.
LineTransform ==
    pc = "closed" =>
        LET kept == SurvivorsFrom(src, 1)
        IN  /\ Len(label_dst) = Len(kept)
            /\ \A j \in 1..Len(kept) :
                   /\ IsOutputOf(label_dst[j], src[kept[j]])
                   /\ src[kept[j]] = LineCar =>
                          label_dst[j] = [cls |-> 3, x |-> 130208, y |-> 254630,
                                          w |-> 156250, h |-> 138889]

LineTransformWitness ==
    /\ pc = "closed" /\ Len(src) = 2
    /\ src[1] = LinePed /\ src[2] = LineCar
    /\ label_dst = <<[cls |-> 0, x |-> 6250, y |-> 21991, w |-> 1563, h |-> 6944],
                     [cls |-> 3, x |-> 130208, y |-> 254630, w |-> 156250,
                      h |-> 138889]>>

\* ------------------------------------------------------- the whole run
\* The annotation files the run may meet.
AnnFiles == {<<LineStatus0>>, <<LineCar, LineMotor, LineCar>>}

\* What one iteration meets in the source tree: the image can be copied or
\* not, the annotation file can be opened or not, its lines, and the line at
\* which reading raises (0: none does).
Found ==
    {[img |-> FALSE, ann |-> TRUE, lines |-> <<>>, raiseAt |-> 0],
     [img |-> TRUE, ann |-> FALSE, lines |-> <<>>, raiseAt |-> 0]}
    \cup UNION {{[img |-> TRUE, ann |-> TRUE, lines |-> l, raiseAt |-> k] :
                     k \in 0..Len(l)} : l \in AnnFiles}

Fails(f) == ~f.img \/ ~f.ann \/ f.raiseAt # 0

\* The loop of lines 69-105 over a whole file, up to the line that raises.
RECURSIVE TransformLines(_, _, _, _, _)
TransformLines(lines, i, stop, st, dest) ==
    IF i > Len(lines) \/ i = stop THEN st
    ELSE TransformLines(lines, i + 1, stop, ProcessLine(lines[i], st, dest), dest)

\* for destination, files in split_map.items(): for img_file in files
RECURSIVE Flatten(_, _, _)
Flatten(map, keys, i) ==
    IF i > Len(keys) THEN <<>>
    ELSE [j \in 1..Len(map[keys[i]]) |-> <<keys[i], map[keys[i]][j]>>]
         \o Flatten(map, keys, i + 1)

\* train_dist.add(val_dist, fill_value=0): the sum over the union of the
\* labels, a cell one frame lacks counting 0.
Cell(t, r, c) == IF r \in DOMAIN t /\ c \in DOMAIN t[r] THEN t[r][c] ELSE 0

Cols(t) == UNION {DOMAIN t[r] : r \in DOMAIN t}

Add(a, b) ==
    [r \in DOMAIN a \cup DOMAIN b |->
        [c \in Cols(a) \cup Cols(b) |-> Cell(a, r, c) + Cell(b, r, c)]]

\* A plausible slip of the handler: the error is raised again.
ExceptRaise == "raised"

\* Lines 108-110: except Exception: print(...); continue
Except == "files"

\* The lines of the file in hand that the loop read before it ended or raised.
ReadLines(f) ==
    IF ~(f.img /\ f.ann) THEN <<>>
    ELSE IF f.raiseAt = 0 THEN f.lines
    ELSE SubSeq(f.lines, 1, f.raiseAt - 1)

\* History of a pass: the (bucket, file) pairs visited, whether a file failed,
\* per bucket the files that gave a surviving line, per class id and bucket the
\* surviving lines read.
NoHist(n) ==
    [visited |-> <<>>, failed |-> FALSE,
     contrib |-> [c \in columns(n) |-> 0],
     kept |-> [k \in MinClass..MaxClass |-> [c \in columns(n) |-> 0]]]

KeptOf(lines, k) ==
    Cardinality({i \in DOMAIN lines : Survives(lines[i]) /\ lines[i][6].v = k})

Record(h, dest, file, f) ==
    [visited |-> Append(h.visited, <<dest, file>>),
     failed |-> h.failed \/ Fails(f),
     contrib |-> IF \E i \in DOMAIN ReadLines(f) : Survives(ReadLines(f)[i])
                 THEN [h.contrib EXCEPT ![dest] = @ + 1] ELSE h.contrib,
     kept |-> [k \in MinClass..MaxClass |->
                  [h.kept[k] EXCEPT ![dest] = @ + KeptOf(ReadLines(f), k)]]]

\* main after create_directories: the destination tree holds no file yet.
Init ==
    /\ pc = "main"
    /\ nclients \in 1..MaxClients
    /\ subset = "train"
    /\ is_train = TRUE
    /\ \E m \in 0..MaxFiles, v \in 0..1 :
           listing = [s \in {"train", "val"} |->
                         IF s = "train" THEN [i \in 1..m |-> File("train", i)]
                         ELSE [i \in 1..v |-> File("val", i)]]
    /\ img_files = Idle
    /\ rng = [seed |-> 7, pos |-> 0]
    /\ split_map = Idle /\ callArg = Idle /\ pinned = NotPinned
    /\ queue = Idle
    /\ dist_df = Idle /\ train_dist = Idle /\ val_dist = Idle /\ total_dist = Idle
    /\ images = {} /\ labels = {}
    /\ destination = None /\ src = Idle /\ lineNo = 0 /\ label_dst = Idle
    /\ found = Idle
    /\ hist = [train |-> NoHist(nclients), val |-> NoHist(nclients)]

\* Lines 141 and 143 with lines 20-45 of process_split: the table is loaded,
\* the directory listed and the assignment built.
StartSplit(sub, train) ==
    /\ pc = (IF train THEN "main" ELSE "train_done")
    /\ listing[sub] # <<>>
    /\ subset' = sub
    /\ is_train' = train
    /\ dist_df' = get_distribution_dataframe(nclients)
    /\ LET r == Assign(listing[sub], nclients, train, rng)
       IN  /\ img_files' = r.files
           /\ rng' = r.rng
           /\ split_map' = r.map
           /\ queue' = Flatten(r.map, Keys(r.map), 1)
    /\ callArg' = listing[sub]
    /\ pc' = "files"
    /\ UNCHANGED <<nclients, listing, pinned, train_dist, val_dist, total_dist,
                   images, labels, destination, src, lineNo, found, label_dst, hist>>

\* Lines 38-39: no image in the subset; main prints and raises again.
StartSplitEmpty(sub, train) ==
    /\ pc = (IF train THEN "main" ELSE "train_done")
    /\ listing[sub] = <<>>
    /\ subset' = sub
    /\ is_train' = train
    /\ dist_df' = get_distribution_dataframe(nclients)
    /\ img_files' = <<>>
    /\ pc' = "raised"
    /\ UNCHANGED <<nclients, listing, rng, split_map, callArg, pinned, queue,
                   train_dist, val_dist, total_dist, images, labels, destination,
                   src, lineNo, found, label_dst, hist>>

\* Lines 49-110, one iteration of the inner loop: the image is copied, the
\* annotation opened, the label file created and the lines transformed; an
\* exception anywhere leaves what was done before it and goes to the handler.
ProcessFile ==
    /\ pc = "files"
    /\ queue # <<>>
    /\ \E f \in Found :
        LET dest == queue[1][1]
            file == queue[1][2]
            stop == IF f.raiseAt = 0 THEN Len(f.lines) + 1 ELSE f.raiseAt
            st == TransformLines(f.lines, 1, stop,
                                 [label |-> <<>>, df |-> dist_df], dest)
        IN  /\ found' = f
            /\ destination' = dest
            /\ hist' = [hist EXCEPT ![subset] = Record(@, dest, file, f)]
            /\ images' = IF f.img THEN images \cup {<<dest, file>>} ELSE images
            /\ IF f.img /\ f.ann
               THEN /\ labels' = labels \cup {<<dest, file>>}
                    /\ src' = f.lines
                    /\ label_dst' = st.label
                    /\ dist_df' = st.df
                    /\ lineNo' = stop
               ELSE /\ UNCHANGED <<labels, dist_df>>
                    /\ src' = <<>>
                    /\ label_dst' = <<>>
                    /\ lineNo' = 0
            /\ pc' = IF Fails(f) THEN Except ELSE "files"
    /\ queue' = Tail(queue)
    /\ UNCHANGED <<nclients, subset, is_train, listing, img_files, rng, split_map,
                   callArg, pinned, train_dist, val_dist, total_dist>>

\* Line 112 with lines 141 and 143: the pass returns its table to main.
ReturnSplit ==
    /\ pc = "files"
    /\ queue = <<>>
    /\ IF is_train
       THEN /\ train_dist' = dist_df
            /\ pc' = "train_done"
            /\ UNCHANGED val_dist
       ELSE /\ val_dist' = dist_df
            /\ pc' = "val_done"
            /\ UNCHANGED train_dist
    /\ UNCHANGED <<nclients, subset, is_train, listing, img_files, rng, split_map,
                   callArg, pinned, queue, dist_df, total_dist, images, labels,
                   destination, src, lineNo, found, label_dst, hist>>

\* Line 146: total_dist = train_dist.add(val_dist, fill_value=0)
Merge ==
    /\ pc = "val_done"
    /\ total_dist' = Add(train_dist, val_dist)
    /\ pc' = "done"
    /\ UNCHANGED <<nclients, subset, is_train, listing, img_files, rng, split_map,
                   callArg, pinned, queue, dist_df, train_dist, val_dist, images,
                   labels, destination, src, lineNo, found, label_dst, hist>>

Next ==
    \/ StartSplit("train", TRUE)
    \/ StartSplitEmpty("train", TRUE)
    \/ ProcessFile
    \/ ReturnSplit
    \/ StartSplit("val", FALSE)
    \/ StartSplitEmpty("val", FALSE)
    \/ Merge

Spec == Init /\ [][Next]_vars

Returned == pc \in {"train_done", "val_done", "done"}

\* C7: after a pass, the 'Samples' cell of every bucket is the number of the
\* bucket's files that gave at least one surviving line.
SamplesCountFiles ==
    Returned =>
        \A b \in columns(nclients) :
            /\ train_dist["Samples"][b] = hist["train"].contrib[b]
            /\ pc # "train_done" => val_dist["Samples"][b] = hist["val"].contrib[b]

\* C8: every cell starts at 0; when no file failed, the cell (k-th class name,
\* bucket b) of the merged table is the number of surviving lines of class id k
\* read from the files of b in the two passes; the merged table is the
\* cell-wise sum of the two tables, in either order.
AccumulationCorrect ==
    /\ (pc = "files" /\ hist[subset].visited = <<>>) =>
           \A r \in Range(index), c \in columns(nclients) : dist_df[r][c] = 0
    /\ pc = "done" =>
           /\ total_dist = Add(val_dist, train_dist)
           /\ \A r \in Range(index), c \in columns(nclients) :
                  total_dist[r][c] = train_dist[r][c] + val_dist[r][c]
           /\ ~(hist["train"].failed \/ hist["val"].failed) =>
                  \A k \in 1..10, b \in columns(nclients) :
                      total_dist[names[k]][b]
                          = hist["train"].kept[k][b] + hist["val"].kept[k][b]

AccumulationCorrectWitness ==
    /\ pc = "done"
    /\ ~(hist["train"].failed \/ hist["val"].failed)
    /\ nclients = 2
    /\ total_dist["car"][client(1)] = 4
    /\ total_dist["motor"][client(1)] = 2
    /\ total_dist["car"][client(2)] = 0
    /\ total_dist["car"][server] = 2

\* C9: a file that fails (image or annotation missing, or an error raised
\* while its lines are read) does not end the pass: the loop goes on with the
\* next file, every file of every bucket is visited in order and the pass
\* returns its table; a file whose image or annotation is missing adds no label
\* line and no table increment.
FailureIsolation ==
    /\ [][(pc = "files" /\ queue # <<>> /\ Fails(found'))
             => (pc' = "files" /\ queue' = Tail(queue))]_vars
    /\ [][(pc = "files" /\ queue # <<>> /\ ~(found'.img /\ found'.ann))
             => (dist_df' = dist_df /\ labels' = labels /\ label_dst' = <<>>)]_vars
    /\ [](pc \in {"train_done", "val_done"} =>
             /\ hist[subset].visited = Flatten(split_map, Keys(split_map), 1)
             /\ Len(hist[subset].visited) = Len(listing[subset])
             /\ (IF is_train THEN train_dist ELSE val_dist) = dist_df)

FailureIsolationWitness ==
    /\ pc = "train_done"
    /\ nclients = 2
    /\ Len(hist["train"].visited) = 3
    /\ hist["train"].failed
    /\ ~Fails(found)
    /\ destination = client(2)
    /\ train_dist["car"][client(1)] = 2
    /\ train_dist["car"][client(2)] = 2
    /\ Cardinality(images) = 3
    /\ Cardinality(labels) = 2

\* C10: after a pass over an empty destination, every image of a bucket has
\* its label file and every label file has its image.
ImagesPaired ==
    Returned => images = labels

====
